---- MODULE Spec2Model ----
(***************************************************************************)
(* Model of pidng/core.py: the DNG converter classes (DNGBASE, RAW2DNG,    *)
(* CAM2DNG, RPICAM2DNG, PICAM2DNG), their options()/convert() pipeline,    *)
(* the sensor unpacker and the layout driven by __process__.               *)
(*                                                                         *)
(* core.py imports the tag/IFD/container classes (pidng/dng.py), the tag   *)
(* catalogue (pidng/defs.py) and the bit packers (pidng/packing.py); those *)
(* modules are modelled from the design document and are marked so in the  *)
(* model map.                                                              *)
(***************************************************************************)
EXTENDS Integers, Sequences, FiniteSets, TLC

VARIABLES
    cls,          \* the converter class of this instance
    modelTags,    \* self.model.tags (CAM2DNG and subclasses), else None
    selfTags,     \* self.tags: [isNone, tags]
    selfCompress, \* self.compress
    selfPath,     \* self.path
    selfFilter,   \* self.filter
    pc,           \* position inside convert()
    frame,        \* the array travelling through convert()
    buf,          \* the buffer returned by __process__
    files,        \* output files that exist on disk
    last,         \* the last completed call and its outcome
    call,         \* the arguments of the call in progress
    ret           \* pure-function specifications: the call's result

vars == <<cls, modelTags, selfTags, selfCompress, selfPath, selfFilter, pc,
          frame, buf, files, last, call, ret>>

None == "None"

-----------------------------------------------------------------------------
(* numpy integer arithmetic on uint8 / uint16 elements                      *)

U8 == 2^8
U16 == 2^16

Shr(x, n) == x \div (2^n)

Shl16(x, n) == (x * (2^n)) % U16

RECURSIVE BitAnd(_, _)
BitAnd(a, b) ==
    IF a = 0 \/ b = 0 THEN 0
    ELSE (IF a % 2 = 1 /\ b % 2 = 1 THEN 1 ELSE 0) + 2 * BitAnd(a \div 2, b \div 2)

RECURSIVE BitOr(_, _)
BitOr(a, b) ==
    IF a = 0 THEN b
    ELSE IF b = 0 THEN a
    ELSE (IF a % 2 = 1 \/ b % 2 = 1 THEN 1 ELSE 0) + 2 * BitOr(a \div 2, b \div 2)

Add16(a, b) == (a + b) % U16

-----------------------------------------------------------------------------
(* RPICAM2DNG.__unpack_pixels__ : geometry selection and the two schemes    *)

Ver(height) ==
    IF height = 1080 THEN 4
    ELSE IF height = 1520 THEN 5
    ELSE IF height = 3040 THEN 6
    ELSE IF height = 760 THEN 3
    ELSE IF height = 2464 THEN 2
    ELSE IF height = 1944 THEN 1
    ELSE 6

Geometry(ver) ==
    CASE ver = 1 -> [reshape |-> <<1952, 3264>>, crop |-> <<1944, 3240>>]
      [] ver = 2 -> [reshape |-> <<2480, 4128>>, crop |-> <<2464, 4100>>]
      [] ver = 3 -> [reshape |-> <<768, 1280>>,  crop |-> <<760, 1265>>]
      [] ver = 4 -> [reshape |-> <<1080, 3072>>, crop |-> <<1080, 3042>>]
      [] ver = 5 -> [reshape |-> <<1520, 3072>>, crop |-> <<1520, 3042>>]
      [] ver = 6 -> [reshape |-> <<3040, 6112>>, crop |-> <<3040, 6084>>]

\* data.astype(np.uint16) << 2 : every column, the 5th included
LegacyWiden(row) == [i \in 1..Len(row) |-> Shl16(row[i], 2)]

\* variant: the slice shifted by byte * 2
LegacyOrIn_noshift(data, byte) ==
    [i \in 1..Len(data) |->
        IF (i - 1) % 5 = byte
        THEN BitOr(data[i], BitAnd(Shr(data[i - byte + 4], byte * 2), 3))
        ELSE data[i]]

\* data[:, byte::5] |= ((data[:, 4::5] >> ((byte+1) * 2)) & 0b11)
LegacyOrIn(data, byte) ==
    [i \in 1..Len(data) |->
        IF (i - 1) % 5 = byte
        THEN BitOr(data[i], BitAnd(Shr(data[i - byte + 4], (byte + 1) * 2), 3))
        ELSE data[i]]

\* np.delete(data, np.s_[4::5], 1)
DeleteFifth(data) ==
    [j \in 1..((Len(data) * 4) \div 5) |-> data[j + ((j - 1) \div 4)]]

UnpackLegacy(row) ==
    DeleteFifth(
        LegacyOrIn(LegacyOrIn(LegacyOrIn(LegacyOrIn(LegacyWiden(row), 0), 1), 2), 3))

\* variant: the two nibbles of the third byte exchanged
UnpackModern_swapped(row) ==
    [j \in 1..((Len(row) \div 3) * 2) |->
        LET t == (j - 1) \div 2
            b0 == row[3 * t + 1]
            b1 == row[3 * t + 2]
            b2 == row[3 * t + 3]
        IN IF (j - 1) % 2 = 0
           THEN Add16(Shl16(b0, 4), BitAnd(Shr(b2, 4), 15))
           ELSE Add16(Shl16(b1, 4), BitAnd(b2, 15))]

\* unpacked_data[:, ::2] / [:, 1::2] of lines 201-203
UnpackModern(row) ==
    [j \in 1..((Len(row) \div 3) * 2) |->
        LET t == (j - 1) \div 2
            b0 == row[3 * t + 1]
            b1 == row[3 * t + 2]
            b2 == row[3 * t + 3]
        IN IF (j - 1) % 2 = 0
           THEN Add16(Shl16(b0, 4), BitAnd(b2, 15))
           ELSE Add16(Shl16(b1, 4), BitAnd(Shr(b2, 4), 15))]

\* lines 193-205 applied to one cropped row
UnpackRow(row, ver) == IF ver < 4 THEN UnpackLegacy(row) ELSE UnpackModern(row)

-----------------------------------------------------------------------------
(* pidng/packing.py : pack10 / pack12 / pack14 (design document, 4.3)       *)
(* Samples of a group are concatenated MSB-first into one bit stream that   *)
(* is re-sliced into bytes.                                                 *)

\* bit p (0-based, MSB-first) of the stream of d-bit samples
SampleBit(samples, d, p) ==
    (samples[(p \div d) + 1] \div (2^(d - 1 - (p % d)))) % 2

PackBits(samples, d) ==
    [q \in 1..((Len(samples) * d) \div 8) |->
        LET p == 8 * (q - 1)
        IN  128 * SampleBit(samples, d, p)     + 64 * SampleBit(samples, d, p + 1)
          + 32  * SampleBit(samples, d, p + 2) + 16 * SampleBit(samples, d, p + 3)
          + 8   * SampleBit(samples, d, p + 4) + 4  * SampleBit(samples, d, p + 5)
          + 2   * SampleBit(samples, d, p + 6) +      SampleBit(samples, d, p + 7)]

pack10(samples) == PackBits(samples, 10)
pack12(samples) == PackBits(samples, 12)
pack14(samples) == PackBits(samples, 14)

\* number of samples whose bits fill a whole number of bytes
GroupSize(d) ==
    CASE d = 8 -> 1 [] d = 10 -> 4 [] d = 12 -> 2 [] d = 14 -> 4 [] d = 16 -> 1

\* rawFrame.astype('uint8').tobytes()
AsUint8Bytes(samples) == [i \in 1..Len(samples) |-> samples[i] % U8]

\* rawFrame.tobytes() of a uint16 array (little-endian host)
Uint16Bytes(samples) ==
    [q \in 1..(2 * Len(samples)) |->
        IF (q - 1) % 2 = 0 THEN samples[((q - 1) \div 2) + 1] % U8
        ELSE samples[((q - 1) \div 2) + 1] \div U8]

\* variant: depth 14 handed to pack12
ProcessTile_slip(samples, bpp) ==
    IF bpp = 8 THEN [raised |-> None, tile |-> AsUint8Bytes(samples)]
    ELSE IF bpp = 10 THEN [raised |-> None, tile |-> pack10(samples)]
    ELSE IF bpp = 12 THEN [raised |-> None, tile |-> pack12(samples)]
    ELSE IF bpp = 14 THEN [raised |-> None, tile |-> pack12(samples)]
    ELSE IF bpp = 16 THEN [raised |-> None, tile |-> Uint16Bytes(samples)]
    ELSE [raised |-> "UnboundLocalError", tile |-> <<>>]

\* __process__, uncompressed branch (lines 61-70); no branch matches an
\* unsupported depth and `tile` stays unbound
ProcessTile(samples, bpp) ==
    IF bpp = 8 THEN [raised |-> None, tile |-> AsUint8Bytes(samples)]
    ELSE IF bpp = 10 THEN [raised |-> None, tile |-> pack10(samples)]
    ELSE IF bpp = 12 THEN [raised |-> None, tile |-> pack12(samples)]
    ELSE IF bpp = 14 THEN [raised |-> None, tile |-> pack14(samples)]
    ELSE IF bpp = 16 THEN [raised |-> None, tile |-> Uint16Bytes(samples)]
    ELSE [raised |-> "UnboundLocalError", tile |-> <<>>]

-----------------------------------------------------------------------------
(* pidng/dng.py, pidng/defs.py : tag catalogue, Tag, IFD (design document,  *)
(* 3 and 4.1)                                                               *)

Tag ==
    [ NewSubfileType     |-> [id |-> 254,   type |-> "LONG"],
      ImageWidth         |-> [id |-> 256,   type |-> "LONG"],
      ImageLength        |-> [id |-> 257,   type |-> "LONG"],
      BitsPerSample      |-> [id |-> 258,   type |-> "SHORT"],
      Compression        |-> [id |-> 259,   type |-> "SHORT"],
      Make               |-> [id |-> 271,   type |-> "ASCII"],
      Orientation        |-> [id |-> 274,   type |-> "SHORT"],
      Software           |-> [id |-> 305,   type |-> "ASCII"],
      TileOffsets        |-> [id |-> 324,   type |-> "LONG"],
      TileByteCounts     |-> [id |-> 325,   type |-> "LONG"],
      DNGVersion         |-> [id |-> 50706, type |-> "BYTE"],
      DNGBackwardVersion |-> [id |-> 50707, type |-> "BYTE"] ]

CompressionScheme == [Uncompressed |-> 1, LJ92 |-> 7]

DNGVersion == [V1_0 |-> <<1, 0, 0, 0>>, V1_4 |-> <<1, 4, 0, 0>>]

TypeWidth(type) ==
    CASE type = "BYTE" -> 1 [] type = "ASCII" -> 1 [] type = "SHORT" -> 2
      [] type = "LONG" -> 4 [] type = "RATIONAL" -> 8

\* dngTag(tag, value): an ASCII value is stored with its terminating NUL
dngTag(tag, value) ==
    [id |-> tag.id, type |-> tag.type,
     rawValue |-> IF tag.type = "ASCII" THEN Append(value, 0) ELSE value]

\* dngTag.setValue(value)
setValue(tag, value) == [tag EXCEPT !.rawValue = value]

TagSize(tag) == Len(tag.rawValue) * TypeWidth(tag.type)

IsOutOfLine(tag) == TagSize(tag) > 4

\* DNGTags.get(tag) returns the tag object, or None when the set has none
TagsHas(tags, tag) == \E i \in 1..Len(tags) : tags[i].id = tag.id

TagsGet(tags, tag) == tags[CHOOSE i \in 1..Len(tags) : tags[i].id = tag.id]

\* inserting a tag into an IFD: a tag whose id is already present is refused
IFDAppend(ifdTags, tag) ==
    IF \E i \in 1..Len(ifdTags) : ifdTags[i].id = tag.id
    THEN [raised |-> "DuplicateTagError", tags |-> ifdTags]
    ELSE [raised |-> None, tags |-> Append(ifdTags, tag)]

\* the order in which the directory entries are serialized: ascending id
RECURSIVE InsertById(_, _)
InsertById(sorted, tag) ==
    IF sorted = <<>> THEN <<tag>>
    ELSE IF tag.id < Head(sorted).id THEN <<tag>> \o sorted
    ELSE <<Head(sorted)>> \o InsertById(Tail(sorted), tag)

\* variant: entries serialized in insertion order
SortedById_unsorted(ifdTags) == ifdTags

RECURSIVE SortedById(_)
SortedById(ifdTags) ==
    IF ifdTags = <<>> THEN <<>>
    ELSE InsertById(SortedById(SubSeq(ifdTags, 1, Len(ifdTags) - 1)),
                    ifdTags[Len(ifdTags)])

\* IFD.directorySize(): count, 12-byte entries, next-IFD pointer
EntrySize == 12

DirectorySize(ifdTags) == 2 + Len(ifdTags) * EntrySize + 4

RECURSIVE OutOfLineSize(_)
OutOfLineSize(ifdTags) ==
    IF ifdTags = <<>> THEN 0
    ELSE (IF IsOutOfLine(Head(ifdTags)) THEN TagSize(Head(ifdTags)) ELSE 0)
         + OutOfLineSize(Tail(ifdTags))

\* dngIFD.dataLen()
IFDDataLen(ifdTags) == DirectorySize(ifdTags) + OutOfLineSize(ifdTags)

-----------------------------------------------------------------------------
(* pidng/dng.py : the container DNG and its layout (design document, 4.2)   *)

HeaderSize == 8

RECURSIVE StripBytes(_)
StripBytes(strips) ==
    IF strips = <<>> THEN 0 ELSE Len(Head(strips)) + StripBytes(Tail(strips))

\* DNG.dataLen(): the Measure pass; it also records where each strip starts
dataLen(ifdTags, strips) ==
    LET ifdEnd == HeaderSize + IFDDataLen(ifdTags)
    IN  [ total |-> ifdEnd + StripBytes(strips),
          StripOffsets |->
              [i \in 1..Len(strips) |-> ifdEnd + StripBytes(SubSeq(strips, 1, i - 1))] ]

\* DNG.setBuffer(buf): every tag gets the place of its out-of-line value,
\* in insertion order, after the directory
setBuffer(ifdTags) ==
    [i \in 1..Len(ifdTags) |->
        [ id |-> ifdTags[i].id, type |-> ifdTags[i].type,
          rawValue |-> ifdTags[i].rawValue,
          dataOffset |-> HeaderSize + DirectorySize(ifdTags)
                         + OutOfLineSize(SubSeq(ifdTags, 1, i - 1)) ]]

EntryWrite(placed, j) ==
    [ at |-> HeaderSize + 2 + EntrySize * (j - 1), len |-> EntrySize,
      kind |-> "entry", id |-> placed.id, inline |-> ~IsOutOfLine(placed),
      val |-> IF IsOutOfLine(placed) THEN <<placed.dataOffset>> ELSE placed.rawValue ]

ValueWrite(placed) ==
    [ at |-> placed.dataOffset, len |-> TagSize(placed), kind |-> "value",
      id |-> placed.id, inline |-> FALSE, val |-> placed.rawValue ]

StripWrite(strips, StripOffsets, i) ==
    [ at |-> StripOffsets[i], len |-> Len(strips[i]), kind |-> "strip",
      id |-> i, inline |-> FALSE, val |-> strips[i] ]

\* DNG.write(): the Serialize pass, as the list of writes into the buffer
write(ifdTags, strips, StripOffsets) ==
    LET placed == setBuffer(ifdTags)
        sorted == SortedById(placed)
        n == Len(ifdTags)
    IN  << [at |-> 0, len |-> HeaderSize, kind |-> "header", id |-> 0,
            inline |-> FALSE, val |-> <<HeaderSize>>],
           [at |-> HeaderSize, len |-> 2, kind |-> "count", id |-> 0,
            inline |-> FALSE, val |-> <<n>>] >>
        \o [j \in 1..n |-> EntryWrite(sorted[j], j)]
        \o << [at |-> HeaderSize + 2 + EntrySize * n, len |-> 4, kind |-> "next",
               id |-> 0, inline |-> FALSE, val |-> <<0>>] >>
        \o [k \in 1..Len(SelectSeq(placed, IsOutOfLine)) |->
               ValueWrite(SelectSeq(placed, IsOutOfLine)[k])]
        \o [i \in 1..Len(strips) |-> StripWrite(strips, StripOffsets, i)]

-----------------------------------------------------------------------------
(* DNGBASE.__process__ (lines 48-105)                                       *)

\* what the external codec (pack16tolj) may hand back
LJBlobs == { <<255, 216, 255, 196, 0>> }

\* the tile of lines 56-70: the codec's blob or its failure when compressing;
\* the packer's bytes otherwise.  Packing a row that is no whole number of
\* groups is left undefined by the packers: it raises or drops the last
\* partial group.
TileOutcomes(samples, cols, bpp, compress) ==
    IF compress
    THEN {[raised |-> "ExternalCodecError", tile |-> <<>>]}
         \cup {[raised |-> None, tile |-> b] : b \in LJBlobs}
    ELSE IF bpp \in {10, 12, 14} /\ cols % GroupSize(bpp) # 0
    THEN {[raised |-> "PackingError", tile |-> <<>>], ProcessTile(samples, bpp)}
    ELSE {ProcessTile(samples, bpp)}

\* lines 77-86: the seven tags __process__ adds itself, in this order
MainIFDBuiltins(strips, compress) ==
    << dngTag(Tag.TileOffsets, [i \in 1..Len(strips) |-> 0]),
       dngTag(Tag.NewSubfileType, <<0>>),
       dngTag(Tag.TileByteCounts, [i \in 1..Len(strips) |-> Len(strips[i])]),
       dngTag(Tag.Compression,
              << IF compress THEN CompressionScheme.LJ92
                 ELSE CompressionScheme.Uncompressed >>),
       dngTag(Tag.Software, <<80, 105, 68, 78, 71>>),
       dngTag(Tag.DNGVersion, DNGVersion.V1_4),
       dngTag(Tag.DNGBackwardVersion, DNGVersion.V1_0) >>

\* lines 79-86: appended outside any try, so a refusal aborts __process__
RECURSIVE AppendAll(_, _)
AppendAll(ifdTags, tagList) ==
    IF tagList = <<>> THEN [raised |-> None, tags |-> ifdTags]
    ELSE LET r == IFDAppend(ifdTags, Head(tagList))
         IN  IF r.raised # None THEN r ELSE AppendAll(r.tags, Tail(tagList))

\* variant: the caller's list added in one go, past the IFD's refusal
AppendCallerTags_extend(ifdTags, tagList) ==
    [tags |-> ifdTags \o tagList, printed |-> <<>>]

\* variant: a refused tag takes the place of the tag that was there
RECURSIVE AppendCallerTags_replace(_, _)
AppendCallerTags_replace(ifdTags, tagList) ==
    IF tagList = <<>> THEN [tags |-> ifdTags, printed |-> <<>>]
    ELSE LET r == IFDAppend(ifdTags, Head(tagList))
             replaced == [i \in 1..Len(ifdTags) |->
                             IF ifdTags[i].id = Head(tagList).id THEN Head(tagList)
                             ELSE ifdTags[i]]
             rest == AppendCallerTags_replace(
                         IF r.raised # None THEN replaced ELSE r.tags, Tail(tagList))
         IN  [ tags |-> rest.tags,
               printed |-> (IF r.raised # None THEN <<Head(tagList)>> ELSE <<>>)
                           \o rest.printed ]

\* lines 88-92: the caller's tags, each append inside try/except; a refused
\* tag is printed and skipped

RECURSIVE AppendCallerTags(_, _)
AppendCallerTags(ifdTags, tagList) ==
    IF tagList = <<>> THEN [tags |-> ifdTags, printed |-> <<>>]
    ELSE LET r == IFDAppend(ifdTags, Head(tagList))
             rest == AppendCallerTags(r.tags, Tail(tagList))
         IN  [ tags |-> rest.tags,
               printed |-> (IF r.raised # None THEN <<Head(tagList)>> ELSE <<>>)
                           \o rest.printed ]

\* variant: the keys of StripOffsets instead of its values
StripOffsetValues_keys(StripOffsets) ==
    [i \in DOMAIN StripOffsets |-> i - 1]

\* variant: key and value of every item
StripOffsetValues_pairs(StripOffsets) ==
    IF Len(StripOffsets) = 0 THEN <<>>
    ELSE [i \in 1..(2 * Len(StripOffsets)) |->
             IF i % 2 = 1 THEN (i - 1) \div 2 ELSE StripOffsets[i \div 2]]

\* lines 98-99: [k for offset, k in dngTemplate.StripOffsets.items()]
StripOffsetValues(StripOffsets) ==
    [i \in DOMAIN StripOffsets |-> StripOffsets[i]]

NoBuffer == [len |-> 0, writes |-> <<>>]

ProcessFailed(error) ==
    [ raised |-> error, buf |-> NoBuffer, totalLength |-> 0, measured |-> <<>>,
      ifd |-> <<>>, strips |-> <<>>, printed |-> <<>> ]

\* __process__ once the tile is known.  `measured` is the IFD as dataLen()
\* saw it, `ifd` the IFD as write() saw it (TileOffsets set in between).
Process(tags, compress, t) ==
    IF t.raised # None THEN ProcessFailed(t.raised)
    ELSE
    LET strips == <<t.tile>>
        own == AppendAll(<<>>, MainIFDBuiltins(strips, compress))
    IN  IF own.raised # None THEN ProcessFailed(own.raised)
        ELSE
        LET all == AppendCallerTags(own.tags, tags)
            m == dataLen(all.tags, strips)
            ifd == [all.tags EXCEPT
                       ![1] = setValue(@, StripOffsetValues(m.StripOffsets))]
        IN  [ raised |-> None,
              buf |-> [len |-> m.total,
                       writes |-> write(ifd, strips, m.StripOffsets)],
              totalLength |-> m.total,
              measured |-> all.tags,
              ifd |-> ifd,
              strips |-> strips,
              printed |-> all.printed ]

-----------------------------------------------------------------------------
(* Bounds and input sets of the pure-function specifications                *)

MaxGroups == 2        \* packed groups per modelled row
MaxExtraTags == 2     \* caller tags beyond the three mandatory ones

AllBytes == 0..(U8 - 1)
DataBytes == {0, 255}

LegacyHeights == {1944, 2464, 760}
ModernHeights == {1080, 1520, 3040}

\* the byte that carries the low bits: every value for one geometry of each
\* scheme, four slice patterns for the others
LowBitBytes(h) == IF h \in {1944, 1520} THEN AllBytes ELSE {0, 27, 228, 255}

LegacyGroups(h) ==
    {<<d0, d1, d2, d3, f>> : d0 \in DataBytes, d1 \in DataBytes, d2 \in DataBytes,
                             d3 \in DataBytes, f \in LowBitBytes(h)}

ModernGroups(h) ==
    {<<b0, b1, b2>> : b0 \in DataBytes \cup {1, 170}, b1 \in DataBytes \cup {1, 170},
                      b2 \in LowBitBytes(h)}

\* a row of n groups: group g at position p, bytes 0b10100101 elsewhere
RowOf(g, n, p) ==
    [i \in 1..(n * Len(g)) |->
        IF ((i - 1) \div Len(g)) + 1 = p THEN g[((i - 1) % Len(g)) + 1]
        ELSE 165]

CroppedRows(groups) ==
    UNION {{RowOf(g, n, p) : g \in groups, p \in 1..n} : n \in 1..MaxGroups}

NoResult == [done |-> FALSE, val |-> <<>>]

NoTags == [isNone |-> TRUE, tags |-> <<>>]

NoFrame == [isArray |-> FALSE, dtype |-> "none", shape |-> <<>>, data |-> <<>>]

\* DNGBASE.__init__ (lines 11-15)
Constructed ==
    /\ selfTags = NoTags
    /\ selfCompress = None
    /\ selfPath = None
    /\ selfFilter = None
    /\ pc = "idle"
    /\ frame = NoFrame
    /\ buf = NoBuffer
    /\ files = {}
    /\ last = [op |-> "__init__", raised |-> None, stage |-> "idle", arg |-> <<>>]

\* the converter of the pure-function specifications: constructed, untouched
ConverterUnused ==
    /\ cls = "RAW2DNG"
    /\ modelTags = <<>>
    /\ Constructed

converterVars == <<cls, modelTags, selfTags, selfCompress, selfPath, selfFilter,
                   pc, frame, buf, files, last>>

-----------------------------------------------------------------------------
(* SpecUnpack: RPICAM2DNG.__unpack_pixels__ on one cropped row of uint8     *)

InitUnpack ==
    /\ ConverterUnused
    /\ \E h \in LegacyHeights \cup ModernHeights :
       \E row \in (IF h \in LegacyHeights THEN CroppedRows(LegacyGroups(h))
                   ELSE CroppedRows(ModernGroups(h))) :
           call = [fn |-> "__unpack_pixels__", height |-> h, row |-> row]
    /\ ret = NoResult

UnpackCroppedRow ==
    /\ call.fn = "__unpack_pixels__"
    /\ ~ret.done
    /\ ret' = [done |-> TRUE, val |-> UnpackRow(call.row, Ver(call.height))]
    /\ UNCHANGED <<call, converterVars>>

NextUnpack == UnpackCroppedRow

SpecUnpack == InitUnpack /\ [][NextUnpack]_vars

\* C6: modern scheme (heights 1080, 1520, 3040): every triplet (b0,b1,b2) of the
\* cropped row yields exactly two samples, the even one (b0 << 4) | (b2 & 0x0F),
\* the odd one (b1 << 4) | ((b2 >> 4) & 0x0F), each below 4096.
ModernTripletLaw ==
    (ret.done /\ call.fn = "__unpack_pixels__" /\ call.height \in ModernHeights) =>
        /\ Len(ret.val) * 3 = Len(call.row) * 2
        /\ \A t \in 0..((Len(call.row) \div 3) - 1) :
            LET b0 == call.row[3 * t + 1]
                b1 == call.row[3 * t + 2]
                b2 == call.row[3 * t + 3]
            IN  /\ ret.val[2 * t + 1] = BitOr(b0 * 16, b2 % 16)
                /\ ret.val[2 * t + 2] = BitOr(b1 * 16, (b2 \div 16) % 16)
                /\ ret.val[2 * t + 1] < 4096
                /\ ret.val[2 * t + 2] < 4096

ModernTripletSeen ==
    /\ ret.done /\ call.fn = "__unpack_pixels__" /\ call.height = 1520
    /\ Len(call.row) = 6
    /\ call.row[4] = 255 /\ call.row[5] = 1 /\ call.row[6] = 27
    /\ ret.val[3] = 4091 /\ ret.val[4] = 17

\* C7 as stated: legacy scheme (heights 1944, 2464, 760): sample k of a group
\* (d0,d1,d2,d3,f) is (dk << 2) | ((f >> ((k+1)*2)) & 0b11) with f the packed
\* byte of the 5th column, four samples per group.
LegacySliceShiftKPlus1 ==
    (ret.done /\ call.fn = "__unpack_pixels__" /\ call.height \in LegacyHeights) =>
        /\ Len(ret.val) * 5 = Len(call.row) * 4
        /\ \A g \in 0..((Len(call.row) \div 5) - 1) : \A k \in 0..3 :
            ret.val[4 * g + k + 1] =
                BitOr(call.row[5 * g + k + 1] * 4,
                      (call.row[5 * g + 5] \div (2^((k + 1) * 2))) % 4)

\* C7 amended: the slice of sample k is bits 2k and 2k+1 of the packed byte f,
\* (f >> (k*2)) & 0b11: the shift of (k+1)*2 acts on the 5th column after it
\* has itself been shifted left by 2.
LegacySliceShiftK ==
    (ret.done /\ call.fn = "__unpack_pixels__" /\ call.height \in LegacyHeights) =>
        /\ Len(ret.val) * 5 = Len(call.row) * 4
        /\ \A g \in 0..((Len(call.row) \div 5) - 1) : \A k \in 0..3 :
            ret.val[4 * g + k + 1] =
                BitOr(call.row[5 * g + k + 1] * 4,
                      (call.row[5 * g + 5] \div (2^(k * 2))) % 4)

LegacyGroupSeen ==
    /\ ret.done /\ call.fn = "__unpack_pixels__" /\ call.height = 2464
    /\ Len(call.row) = 10
    /\ SubSeq(call.row, 6, 10) = <<255, 0, 0, 255, 27>>
    /\ SubSeq(ret.val, 5, 8) = <<1023, 2, 1, 1020>>

-----------------------------------------------------------------------------
(* SpecPack: the uncompressed strip of __process__ for one row of samples   *)

Depths == {8, 10, 12, 14, 16}

\* sample values of depth d: the four lowest and the four highest
EdgeSamples(d) == (0..3) \cup ((2^d - 4)..(2^d - 1))

SampleGroups(d) ==
    IF GroupSize(d) = 4
    THEN {<<a, b, c, e>> : a \in EdgeSamples(d), b \in EdgeSamples(d),
                           c \in EdgeSamples(d), e \in EdgeSamples(d)}
    ELSE IF GroupSize(d) = 2
    THEN {<<a, b>> : a \in EdgeSamples(d), b \in EdgeSamples(d)}
    ELSE {<<a>> : a \in EdgeSamples(d)}

\* a row of n groups of depth d: group g at position p, 0b0101.. elsewhere
SampleRow(g, d, n, p) ==
    [i \in 1..(n * Len(g)) |->
        IF ((i - 1) \div Len(g)) + 1 = p THEN g[((i - 1) % Len(g)) + 1]
        ELSE (2^d - 1) \div 3]

SampleRows(d) ==
    UNION {{SampleRow(g, d, n, p) : g \in SampleGroups(d), p \in 1..n} :
           n \in 1..MaxGroups}

InitPack ==
    /\ ConverterUnused
    /\ \E d \in Depths : \E samples \in SampleRows(d) :
           call = [fn |-> "__process__.tile", bpp |-> d, samples |-> samples]
    /\ ret = NoResult

PackTile ==
    /\ call.fn = "__process__.tile"
    /\ ~ret.done
    /\ ret' = [done |-> TRUE, val |-> ProcessTile(call.samples, call.bpp)]
    /\ UNCHANGED <<call, converterVars>>

NextPack == PackTile

SpecPack == InitPack /\ [][NextPack]_vars

\* the depth-specific reference inverse: bit p (0-based) of a byte stream,
\* and the d-bit value starting at bit p
ByteBit(bytes, p) == (bytes[(p \div 8) + 1] \div (2^(7 - (p % 8)))) % 2

RECURSIVE BitsValue(_, _, _)
BitsValue(bytes, p, d) ==
    IF d = 0 THEN 0
    ELSE ByteBit(bytes, p) * (2^(d - 1)) + BitsValue(bytes, p + 1, d - 1)

RefUnpack(bytes, d) ==
    IF d = 8 THEN bytes
    ELSE IF d = 16
    THEN [s \in 1..(Len(bytes) \div 2) |-> bytes[2 * s - 1] + 256 * bytes[2 * s]]
    ELSE [s \in 1..((Len(bytes) * 8) \div d) |-> BitsValue(bytes, d * (s - 1), d)]

\* C9: for every depth d in {8,10,12,14,16} and every row of samples below 2^d
\* that is a whole number of groups, the uncompressed strip takes exactly d bits
\* per sample and the reference inverse of depth d returns the samples.
PackRoundTrip ==
    (ret.done /\ call.fn = "__process__.tile") =>
        /\ ret.val.raised = None
        /\ Len(ret.val.tile) * 8 = call.bpp * Len(call.samples)
        /\ RefUnpack(ret.val.tile, call.bpp) = call.samples

PackScenarioSeen ==
    /\ ret.done /\ call.fn = "__process__.tile" /\ call.bpp = 10
    /\ call.samples = <<1020, 1021, 1022, 1023>>
    /\ ret.val.tile = <<255, 63, 223, 251, 255>>

-----------------------------------------------------------------------------
(* SpecLayout: __process__ on a frame, a caller tag list and a compress     *)
(* flag                                                                     *)

MandatoryTags(bpp) ==
    { dngTag(Tag.ImageWidth, <<4>>), dngTag(Tag.ImageLength, <<2>>),
      dngTag(Tag.BitsPerSample, <<bpp>>) }

\* optional caller tags: one stored out of line and two whose ids __process__
\* also adds itself
OptionalTags ==
    { dngTag(Tag.Make, <<82, 80, 105, 50>>), dngTag(Tag.Compression, <<8>>),
      dngTag(Tag.Software, <<88>>) }

\* DNGTags holds one tag per id: every list of distinct tags, in any order
ListsOver(tagSet, n) ==
    {l \in [1..n -> tagSet] : \A i, j \in 1..n : i # j => l[i].id # l[j].id}

CallerTagLists(bpp) ==
    UNION {{l \in ListsOver(MandatoryTags(bpp) \cup OptionalTags, n) :
                MandatoryTags(bpp) \subseteq {l[i] : i \in 1..n}} :
           n \in 3..(3 + MaxExtraTags)}

\* depth and frame: aligned rows, a row that is no whole number of groups, an
\* empty frame and a depth no branch of lines 61-70 handles
LayoutFrames ==
    { [bpp |-> 8,  samples |-> <<0, 1, 2, 3>>, cols |-> 4],
      [bpp |-> 10, samples |-> <<0, 1, 2, 3>>, cols |-> 4],
      [bpp |-> 10, samples |-> <<1, 2, 3>>,    cols |-> 3],
      [bpp |-> 10, samples |-> <<>>,           cols |-> 0],
      [bpp |-> 9,  samples |-> <<0, 1, 2, 3>>, cols |-> 4] }

InitLayout ==
    /\ ConverterUnused
    /\ \E f \in LayoutFrames : \E tags \in CallerTagLists(f.bpp) :
       \E compress \in BOOLEAN :
           call = [fn |-> "__process__", samples |-> f.samples, cols |-> f.cols,
                   tags |-> tags, compress |-> compress]
    /\ ret = NoResult

ProcessFrame ==
    /\ call.fn = "__process__"
    /\ ~ret.done
    /\ \E t \in TileOutcomes(call.samples, call.cols,
                             TagsGet(call.tags, Tag.BitsPerSample).rawValue[1],
                             call.compress) :
           ret' = [done |-> TRUE, val |-> Process(call.tags, call.compress, t)]
    /\ UNCHANGED <<call, converterVars>>

NextLayout == ProcessFrame

SpecLayout == InitLayout /\ [][NextLayout]_vars

Produced == ret.done /\ call.fn = "__process__" /\ ret.val.raised = None

WritesOf(kind) ==
    {ret.val.buf.writes[i] : i \in {j \in 1..Len(ret.val.buf.writes) :
                                       ret.val.buf.writes[j].kind = kind}}

EntriesOf(tag) == {w \in WritesOf("entry") : w.id = tag.id}

\* C2: in the returned buffer the i-th TileOffsets value is the absolute position
\* of the first byte of strip i and the i-th TileByteCounts value is the byte
\* length of strip i.
TileOffsetsPointAtStrips ==
    Produced =>
        /\ Cardinality(EntriesOf(Tag.TileOffsets)) = 1
        /\ Cardinality(EntriesOf(Tag.TileByteCounts)) = 1
        /\ \A o \in EntriesOf(Tag.TileOffsets) : \A c \in EntriesOf(Tag.TileByteCounts) :
            /\ o.inline /\ c.inline
            /\ Len(o.val) = Len(ret.val.strips)
            /\ Len(c.val) = Len(ret.val.strips)
            /\ \A i \in 1..Len(ret.val.strips) :
                /\ \E s \in WritesOf("strip") :
                      /\ s.id = i
                      /\ s.val = ret.val.strips[i]
                      /\ s.at = o.val[i]
                      /\ s.at + s.len <= ret.val.buf.len
                /\ c.val[i] = Len(ret.val.strips[i])

OffsetsSeen ==
    /\ Produced
    /\ ~call.compress
    /\ Len(ret.val.strips[1]) = 5
    /\ \E i \in 1..Len(call.tags) : call.tags[i].id = Tag.Make.id
    /\ \E o \in EntriesOf(Tag.TileOffsets) : o.val = <<157>>

RECURSIVE WrittenBytes(_)
WrittenBytes(writes) ==
    IF writes = <<>> THEN 0 ELSE Head(writes).len + WrittenBytes(Tail(writes))

Covering(b) ==
    {i \in 1..Len(ret.val.buf.writes) :
        /\ ret.val.buf.writes[i].at <= b
        /\ b < ret.val.buf.writes[i].at + ret.val.buf.writes[i].len}

BuiltinIds == {MainIFDBuiltins(<<>>, FALSE)[i].id : i \in 1..7}

-----------------------------------------------------------------------------
(* Spec: one converter object, options() and convert() called on it         *)

Classes == {"RAW2DNG", "CAM2DNG", "RPICAM2DNG", "PICAM2DNG"}

Some(tags) == [isNone |-> FALSE, tags |-> tags]

\* every subset of the three mandatory tags, as a tag list
MandatoryLists ==
    LET w == dngTag(Tag.ImageWidth, <<4>>)
        h == dngTag(Tag.ImageLength, <<2>>)
        b == dngTag(Tag.BitsPerSample, <<10>>)
    IN  { <<w, h, b>>, <<h, b>>, <<w, b>>, <<w, h>>, <<w>>, <<h>>, <<b>>, <<>> }

Images ==
    { [isArray |-> TRUE, dtype |-> "uint16", shape |-> <<2, 4>>,
       data |-> <<0, 1, 2, 3, 1020, 1021, 1022, 1023>>],
      [isArray |-> TRUE, dtype |-> "uint16", shape |-> <<1, 3>>,
       data |-> <<1, 2, 3>>],
      [isArray |-> TRUE, dtype |-> "uint8", shape |-> <<1, 5>>,
       data |-> <<255, 0, 0, 255, 27>>] }

\* a filename: empty, without and with the .dng suffix
Filenames ==
    { [stem |-> "", dng |-> FALSE], [stem |-> "img", dng |-> FALSE],
      [stem |-> "img", dng |-> TRUE] }

Paths == {"out"}

\* user-supplied filter callbacks, by what they return
Filters == {"halve", "scalar", "transpose", "float", "saturate"}

\* processed = filter(rawFrame) (line 37)
FilterCall(filter, rawFrame) ==
    CASE filter = "halve" ->
            [rawFrame EXCEPT !.data = [i \in 1..Len(rawFrame.data) |->
                                          rawFrame.data[i] \div 2]]
      [] filter = "scalar" -> NoFrame
      [] filter = "transpose" ->
            [rawFrame EXCEPT !.shape = <<rawFrame.shape[2], rawFrame.shape[1]>>]
      [] filter = "float" -> [rawFrame EXCEPT !.dtype = "float32"]
      [] filter = "saturate" ->
            [rawFrame EXCEPT !.data = [i \in 1..Len(rawFrame.data) |-> U16 - 1]]

\* variant: BitsPerSample not looked at
TagsCondition_noBits(tags) ==
    IF ~TagsHas(tags, Tag.ImageWidth) THEN "No width is defined in tags."
    ELSE IF ~TagsHas(tags, Tag.ImageLength) THEN "No height is defined in tags."
    ELSE None

\* DNGBASE.__tags_condition__ (lines 21-27): the message raised, or None
TagsCondition(tags) ==
    IF ~TagsHas(tags, Tag.ImageWidth) THEN "No width is defined in tags."
    ELSE IF ~TagsHas(tags, Tag.ImageLength) THEN "No height is defined in tags."
    ELSE IF ~TagsHas(tags, Tag.BitsPerSample) THEN "Bit per pixel is not defined."
    ELSE None

\* __data_condition__ (lines 17-19; RPICAM2DNG lines 157-159 only warns)
DataCondition(class, data) ==
    IF class \in {"RPICAM2DNG", "PICAM2DNG"} THEN None
    ELSE IF data.dtype # "uint16"
    THEN "RAW Data is not in correct format. Must be uint16_t Numpy Array. "
    ELSE None

\* __unpack_pixels__ (lines 29-30; RPICAM2DNG lines 161-205) on a whole frame
UnpackPixels(class, tags, data) ==
    IF class \notin {"RPICAM2DNG", "PICAM2DNG"} \/ data.dtype # "uint8"
    THEN [raised |-> None, frame |-> data]
    ELSE
    LET ver == Ver(TagsGet(tags, Tag.ImageLength).rawValue[1])
        g == Geometry(ver)
        outCols == IF ver < 4 THEN (g.crop[2] * 4) \div 5 ELSE (g.crop[2] \div 3) * 2
        CroppedRow(r) == [c \in 1..g.crop[2] |-> data.data[(r - 1) * g.reshape[2] + c]]
    IN  IF Len(data.data) # g.reshape[1] * g.reshape[2]
        THEN [raised |-> "ValueError: cannot reshape array", frame |-> NoFrame]
        ELSE [raised |-> None,
              frame |-> [isArray |-> TRUE, dtype |-> "uint16",
                         shape |-> <<g.crop[1], outCols>>,
                         data |-> [k \in 1..(g.crop[1] * outCols) |->
                             UnpackRow(CroppedRow(((k - 1) \div outCols) + 1), ver)
                                 [((k - 1) % outCols) + 1]]]]

\* __filter__ (lines 32-45)
Filter(rawFrame, filter) ==
    IF filter = None THEN [raised |-> None, frame |-> rawFrame]
    ELSE LET processed == FilterCall(filter, rawFrame)
         IN  IF ~processed.isArray
             THEN [raised |-> "TypeError: return value is not a valid numpy array!",
                   frame |-> NoFrame]
             ELSE IF processed.shape # rawFrame.shape
             THEN [raised |-> "ValueError: return array does not have the same shape!",
                   frame |-> NoFrame]
             ELSE IF processed.dtype # "uint16"
             THEN [raised |-> "ValueError: array data type is invalid!",
                   frame |-> NoFrame]
             ELSE [raised |-> None, frame |-> processed]

\* variant: the exception of a step caught and the next step run
NextStage_swallow(stage, raised) ==
    CASE stage = "data_condition" -> "unpack_pixels"
      [] stage = "unpack_pixels" -> "filter"
      [] stage = "filter" -> "process"
      [] stage = "process" -> "output"

\* convert(), lines 119-122: an exception of a step leaves convert(); otherwise
\* the next step runs
NextStage(stage, raised) ==
    IF raised # None THEN "idle"
    ELSE CASE stage = "data_condition" -> "unpack_pixels"
           [] stage = "unpack_pixels" -> "filter"
           [] stage = "filter" -> "process"
           [] stage = "process" -> "output"

NoCall == [fn |-> "none", filename |-> [stem |-> "", dng |-> FALSE],
           unpacked |-> NoFrame]

Init ==
    /\ cls \in Classes
    /\ modelTags \in (IF cls = "RAW2DNG" THEN {<<>>} ELSE MandatoryLists)
    /\ Constructed
    /\ call = NoCall
    /\ ret = NoResult

\* converter.filter = f
SetFilter ==
    /\ pc = "idle"
    /\ \E f \in Filters \cup {None} : selfFilter' = f
    /\ UNCHANGED <<cls, modelTags, selfTags, selfCompress, selfPath, pc, frame,
                   buf, files, last, call, ret>>

\* options() of the four classes (lines 107-111, 149-153, 209-213)
Options ==
    /\ pc = "idle"
    /\ \E tags \in (IF cls = "RAW2DNG" THEN MandatoryLists ELSE {modelTags}) :
       \E path \in (IF cls = "PICAM2DNG" THEN {""} ELSE Paths) :
       \E compress \in BOOLEAN :
          LET e == TagsCondition(tags)
          IN  /\ last' = [op |-> "options", raised |-> e, stage |-> "idle",
                          arg |-> tags]
              /\ IF e # None
                 THEN UNCHANGED <<selfTags, selfCompress, selfPath>>
                 ELSE /\ selfTags' = Some(tags)
                      /\ selfCompress' = compress
                      /\ selfPath' = path
    /\ UNCHANGED <<cls, modelTags, selfFilter, pc, frame, buf, files, call, ret>>

Outcome(stage, raised) ==
    [op |-> "convert", raised |-> raised, stage |-> stage, arg |-> <<>>]

\* convert(image, filename), lines 113-116
ConvertEnter ==
    /\ pc = "idle"
    /\ \E image \in Images : \E filename \in Filenames :
          IF selfTags.isNone
          THEN /\ last' = Outcome("enter", "Options have not been set!")
               /\ UNCHANGED <<pc, frame, call>>
          ELSE /\ pc' = "data_condition"
               /\ frame' = image
               /\ call' = [fn |-> "convert", filename |-> filename,
                           unpacked |-> NoFrame]
               /\ last' = Outcome("enter", None)
    /\ UNCHANGED <<cls, modelTags, selfTags, selfCompress, selfPath, selfFilter,
                   buf, files, ret>>

\* one step of lines 119-122: its result becomes the local it assigns, or its
\* exception ends convert() and the locals are gone
Step(raised, newFrame, newBuf, newCall) ==
    /\ pc' = NextStage(pc, raised)
    /\ last' = IF raised # None THEN Outcome(pc, raised) ELSE last
    /\ IF pc' = "idle"
       THEN frame' = NoFrame /\ buf' = NoBuffer /\ call' = NoCall
       ELSE /\ frame' = IF raised = None THEN newFrame ELSE frame
            /\ buf' = IF raised = None THEN newBuf ELSE buf
            /\ call' = IF raised = None THEN newCall ELSE call

\* line 119
ConvertDataCondition ==
    /\ pc = "data_condition"
    /\ Step(DataCondition(cls, frame), frame, buf, call)
    /\ UNCHANGED <<cls, modelTags, selfTags, selfCompress, selfPath, selfFilter,
                   files, ret>>

\* line 120
ConvertUnpackPixels ==
    /\ pc = "unpack_pixels"
    /\ LET r == UnpackPixels(cls, modelTags, frame)
       IN  Step(r.raised, r.frame, buf, [call EXCEPT !.unpacked = r.frame])
    /\ UNCHANGED <<cls, modelTags, selfTags, selfCompress, selfPath, selfFilter,
                   files, ret>>

\* line 121
ConvertFilter ==
    /\ pc = "filter"
    /\ LET r == Filter(frame, selfFilter)
       IN  Step(r.raised, r.frame, buf, call)
    /\ UNCHANGED <<cls, modelTags, selfTags, selfCompress, selfPath, selfFilter,
                   files, ret>>

\* line 122
ConvertProcess ==
    /\ pc = "process"
    /\ \E t \in TileOutcomes(frame.data, frame.shape[2],
                             TagsGet(selfTags.tags, Tag.BitsPerSample).rawValue[1],
                             selfCompress) :
          LET r == Process(selfTags.tags, selfCompress, t)
          IN  Step(r.raised, frame, r.buf, call)
    /\ UNCHANGED <<cls, modelTags, selfTags, selfCompress, selfPath, selfFilter,
                   files, ret>>

\* os.path.join(self.path, filename) once the suffix is ensured (129-131)
OutputDNG(path, filename) == [dir |-> path, name |-> filename.stem, suffix |-> ".dng"]

\* lines 124-136: the file is opened and written and its path returned, or the
\* buffer is returned; open() may fail
ConvertOutput ==
    /\ pc = "output"
    /\ pc' = "idle"
    /\ frame' = NoFrame /\ buf' = NoBuffer /\ call' = NoCall
    /\ IF call.filename.stem = ""
       THEN /\ last' = Outcome("return buf", last.raised)
            /\ UNCHANGED files
       ELSE \E opened \in BOOLEAN :
            IF opened
            THEN /\ files' = {f \in files : f.path # OutputDNG(selfPath, call.filename)}
                             \cup {[path |-> OutputDNG(selfPath, call.filename),
                                    content |-> buf]}
                 /\ last' = Outcome("return path", last.raised)
            ELSE /\ last' = Outcome("output", "OSError")
                 /\ UNCHANGED files
    /\ UNCHANGED <<cls, modelTags, selfTags, selfCompress, selfPath, selfFilter, ret>>

Next ==
    \/ SetFilter
    \/ Options
    \/ ConvertEnter
    \/ ConvertDataCondition
    \/ ConvertUnpackPixels
    \/ ConvertFilter
    \/ ConvertProcess
    \/ ConvertOutput

Spec == Init /\ [][Next]_vars

-----------------------------------------------------------------------------
(* Properties of options() and convert()                                    *)

Complete(tags) ==
    /\ TagsHas(tags, Tag.ImageWidth)
    /\ TagsHas(tags, Tag.ImageLength)
    /\ TagsHas(tags, Tag.BitsPerSample)

\* C1: options() on a tag set lacking ImageWidth, ImageLength or BitsPerSample
\* (given, or the camera model's) fails with a message naming an absent tag; the
\* set is not stored, and convert() only ever works on sample data with a stored,
\* complete tag set.
MissingTagRejected ==
    /\ (last.op = "options" /\ ~Complete(last.arg)) =>
          /\ last.raised \in {"No width is defined in tags.",
                              "No height is defined in tags.",
                              "Bit per pixel is not defined."}
          /\ last.raised = "No width is defined in tags."
                => ~TagsHas(last.arg, Tag.ImageWidth)
          /\ last.raised = "No height is defined in tags."
                => ~TagsHas(last.arg, Tag.ImageLength)
          /\ last.raised = "Bit per pixel is not defined."
                => ~TagsHas(last.arg, Tag.BitsPerSample)
          /\ selfTags # Some(last.arg)
          /\ pc = "idle" /\ frame = NoFrame /\ buf = NoBuffer
    /\ ~selfTags.isNone => Complete(selfTags.tags)
    /\ pc # "idle" => ~selfTags.isNone

MissingTagSeen ==
    /\ cls = "RAW2DNG"
    /\ ~selfTags.isNone
    /\ last.op = "options"
    /\ ~TagsHas(last.arg, Tag.BitsPerSample) /\ TagsHas(last.arg, Tag.ImageWidth)
    /\ TagsHas(last.arg, Tag.ImageLength)
    /\ last.raised = "Bit per pixel is not defined."

CompleteBuffer(b) == b.len > 0 /\ WrittenBytes(b.writes) = b.len

\* C8: an output file is created or changed only by the last step of a convert()
\* whose validation, unpacking, filtering and __process__ all succeeded, and it
\* then holds the complete buffer; a convert() that fails in one of those steps
\* leaves the files as they were.
FileOnlyAfterBuffer ==
    /\ [](\A f \in files : CompleteBuffer(f.content))
    /\ [][ /\ files' # files =>
                /\ pc = "output"
                /\ last.op = "convert" /\ last.raised = None
                /\ CompleteBuffer(buf)
                /\ \E f \in files' : f.content = buf /\ files' \ {f} \subseteq files
           /\ (last' # last /\ last'.op = "convert" /\ last'.raised # None)
                => files' = files
         ]_vars

FileWrittenSeen ==
    /\ last.op = "convert" /\ last.stage = "return path" /\ last.raised = None
    /\ selfFilter = "halve"
    /\ \E f \in files : f.path.name = "img" /\ f.content.len > 100

\* C10 as stated: with a filter configured, __process__ only ever runs on a
\* result that is an array of the input's shape, of 16-bit unsigned type and
\* with no value outside the input's range (below 2^BitsPerSample).
FilterResultInRange ==
    (pc = "process" /\ selfFilter # None) =>
        /\ frame.isArray
        /\ frame.shape = call.unpacked.shape
        /\ frame.dtype = "uint16"
        /\ \A i \in 1..Len(frame.data) :
              frame.data[i] < 2^(TagsGet(selfTags.tags, Tag.BitsPerSample).rawValue[1])

====
